---- MODULE Spec2Model ----
(***************************************************************************)
(* A model of the QuCumber helper scripts:                                 *)
(*   src/tests/grads_utils.py  (PosGradsUtils, ComplexGradsUtils,          *)
(*                              DensityGradsUtils)                         *)
(*   src/symmetries.py         (plotWeights)                               *)
(*                                                                         *)
(* The external NQS library (compute_normalization, probability, psi,      *)
(* density_matrix_KL, ...) is opaque: a value it returns is modelled as a  *)
(* symbolic term that records the arguments and the parameter storage the  *)
(* library read when it was called.  Arithmetic is exact (integers stand   *)
(* for the reals); a quotient is kept as the pair numerator/denominator.   *)
(***************************************************************************)
EXTENDS Integers, Sequences, FiniteSets, TLC

VARIABLES
    \* ---- numeric_gradKL / numeric_gradNLL / all_num_grads ----
    util,        \* which utility function is running
    nn,          \* the model's parameter storage: nets -> parameters -> tensor
    nn0,         \* the storage when the outermost call started
    at_call,     \* the storage when the running numeric_grad* call started
    eps,         \* the displacement
    net,         \* all_num_grads: index of the network (1-based)
    par,         \* all_num_grads: index of the parameter of the network
    i,           \* the loop index of numeric_grad* (0-based, as in the code)
    pc,          \* the position in the running function
    Z,           \* local Z
    KL_p,        \* local KL_p / NLL_p
    KL_m,        \* local KL_m / NLL_m
    num_gradKL,  \* local list num_gradKL / num_gradNLL
    num_grad,    \* all_num_grads: local num_grad
    num_grads,   \* all_num_grads: local num_grads
    result,      \* the value the last numeric_grad* call returned
    err,         \* the error that ended the call ("none": no error)
    trace,       \* the library calls and parameter writes so far, in order
    \* ---- symmetries.py: the script and plotWeights ----
    model,       \* the argument of plotWeights ("none" before the call)
    plot_calls,  \* how many times the script has called plotWeights
    params,      \* the loaded model's tensors: visible_bias, hidden_bias, weights
    visibleBias, hiddenBias, weights,   \* the local numpy copies
    rowSums, colSums,
    vbiases, hbiases,
    prow,        \* the loop index i of the strong-coupling loop (0-based)
    shown,       \* the figures shown so far, in order
    ppc,         \* the position in plotWeights
    perr,        \* the error that ended plotWeights ("none": no error)
    \* ---- ComplexGradsUtils.compute_numerical_NLL ----
    num_visible, \* self.nn_state.num_visible
    data_samples, data_bases,
    n_i,         \* the loop index i over the batch (0-based)
    b_flag, ind,
    NLL,         \* the terms subtracted from NLL so far, in order
    npc,         \* the position in compute_numerical_NLL
    \* ---- ComplexGradsUtils.rotate_psi ----
    N, basis, vis,
    x, xp,       \* the loop indices (0-based)
    v,           \* the tensor v, reused by every iteration
    num_nontrivial_U, nontrivial_sites, sub_state,
    Upsi,        \* the terms added to Upsi so far, in order
    psi_r,       \* psi_r[:, x] for every x, as the sum stored there
    rpc,         \* the position in rotate_psi
    \* ---- ComplexGradsUtils.load_target_psi ----
    bases, psi_data,      \* the caller's arguments
    psi_local,   \* the function's own psi_data (the clone)
    D,
    b,           \* the loop index (0-based)
    psi_dict,
    lpc,         \* the position in load_target_psi
    lerr,        \* the error that ended load_target_psi ("none": no error)
    \* ---- transform_bases (both classes) ----
    bases_data,  \* the caller's argument
    out_complex, \* ComplexGradsUtils.transform_bases(bases_data)
    out_density, \* DensityGradsUtils.transform_bases(bases_data)
    again_complex,  \* ComplexGradsUtils.transform_bases(out_complex)
    again_density,  \* DensityGradsUtils.transform_bases(out_density)
    tpc          \* which of the calls have been made

gvars == <<util, nn, nn0, at_call, eps, net, par, i, pc, Z, KL_p, KL_m,
           num_gradKL, num_grad, num_grads, result, err, trace>>

pvars == <<model, plot_calls, params, visibleBias, hiddenBias, weights, rowSums, colSums,
           vbiases, hbiases, prow, shown, ppc, perr>>

nvars == <<num_visible, data_samples, data_bases, n_i, b_flag, ind, NLL, npc>>

rvars == <<N, basis, vis, x, xp, v, num_nontrivial_U, nontrivial_sites,
           sub_state, Upsi, psi_r, rpc>>

lvars == <<bases, psi_data, psi_local, D, b, psi_dict, lpc, lerr>>

tvars == <<bases_data, out_complex, out_density, again_complex,
           again_density, tpc>>

vars == <<gvars, pvars, nvars, rvars, lvars, tvars>>

\* the variables of the other functions, which a step of one leaves alone
not_g == <<pvars, nvars, rvars, lvars, tvars>>
not_p == <<gvars, nvars, rvars, lvars, tvars>>
not_n == <<gvars, pvars, rvars, lvars, tvars>>
not_r == <<gvars, pvars, nvars, lvars, tvars>>
not_l == <<gvars, pvars, nvars, rvars, tvars>>
not_t == <<gvars, pvars, nvars, rvars, lvars>>

\* ------------------------------------------------------------------ bounds
MaxLen     == 3     \* longest 1-D parameter tensor
MaxRows    == 2     \* most rows of a 2-D parameter tensor
MaxCols    == 2     \* most columns of a 2-D parameter tensor
MaxNets    == 2     \* most networks of nn_state.networks
MaxPars    == 2     \* most parameters of one network
MaxEps     == 2     \* eps ranges over -1..MaxEps
MaxBase    == 1     \* parameter entries start at base + position
MaxH       == 2     \* most hidden units (rows of weights)
MaxV       == 2     \* most visible units (columns of weights)
MaxN       == 2     \* most visible units of the wavefunction (num_visible)
MaxBatch   == 2     \* most samples of a batch
MaxBases   == 2     \* most basis strings given to load_target_psi
MaxPsi     == 4     \* most rows of psi_data
MaxList    == 2     \* most strings given to transform_bases
MaxStr     == 2     \* most characters of one such string

\* ------------------------------------------- a function that is not running
IdleGrad ==
    /\ util = "none" /\ nn = <<>> /\ nn0 = <<>> /\ at_call = <<>> /\ eps = 0
    /\ net = 1 /\ par = 1 /\ i = 0 /\ pc = "idle"
    /\ Z = <<>> /\ KL_p = <<>> /\ KL_m = <<>>
    /\ num_gradKL = <<>> /\ num_grad = <<>> /\ num_grads = <<>>
    /\ result = <<>> /\ err = "none" /\ trace = <<>>

IdlePlot ==
    /\ model = "none" /\ plot_calls = 0
    /\ params = <<>> /\ visibleBias = <<>> /\ hiddenBias = <<>>
    /\ weights = <<>> /\ rowSums = <<>> /\ colSums = <<>>
    /\ vbiases = <<>> /\ hbiases = <<>> /\ prow = 0
    /\ shown = <<>> /\ ppc = "idle" /\ perr = "none"

IdleNLL ==
    /\ num_visible = 0 /\ data_samples = <<>> /\ data_bases = <<>>
    /\ n_i = 0 /\ b_flag = 0 /\ ind = 0 /\ NLL = <<>> /\ npc = "idle"

IdleRot ==
    /\ N = 0 /\ basis = <<>> /\ vis = <<>> /\ x = 0 /\ xp = 0 /\ v = <<>>
    /\ num_nontrivial_U = 0 /\ nontrivial_sites = <<>> /\ sub_state = <<>>
    /\ Upsi = <<>> /\ psi_r = <<>> /\ rpc = "idle"

IdleLoad ==
    /\ bases = <<>> /\ psi_data = <<>> /\ psi_local = <<>> /\ D = 0 /\ b = 0
    /\ psi_dict = <<>> /\ lpc = "idle" /\ lerr = "none"

IdleBases ==
    /\ bases_data = <<>> /\ out_complex = <<>> /\ out_density = <<>>
    /\ again_complex = <<>> /\ again_density = <<>> /\ tpc = "idle"

\* ----------------------------------------------------------------- tensors
\* A tensor is its shape and its (contiguous) storage; storage cell k of the
\* code is data[k + 1].
Numel(shape) == IF Len(shape) = 1 THEN shape[1] ELSE shape[1] * shape[2]

Shapes1D == {<<n>> : n \in 1..MaxLen}
Shapes2D == {<<r, c>> : r \in 1..MaxRows, c \in 1..MaxCols}

NewTensor(shape, first) ==
    [shape |-> shape, data |-> [k \in 1..Numel(shape) |-> first + k - 1]]

\* element [r][c] of a 2-D tensor, [r] of a 1-D one (0-based)
At(t, r, c) ==
    IF Len(t.shape) = 1 THEN t.data[r + 1] ELSE t.data[r * t.shape[2] + c + 1]

NoValue == [none |-> TRUE]
NoZ     == [fn |-> "none", of |-> <<>>]

\* ------------------------------------------------- the external library
\* nn_state.compute_normalization(vis): reads every parameter of the model
compute_normalization(m) == [fn |-> "compute_normalization", of |-> m]

\* compute_numerical_kl / compute_numerical_NLL / compute_numerical_KL: read
\* every parameter of the model, and the Z they are given
Objective(m, z) == [fn |-> "objective", of |-> m, Z |-> z]

Quotient(p, m, d) == [plus |-> p, minus |-> m, den |-> d]

Utils1D == {"PosKL", "PosNLL", "CplxNLL", "CplxKL"}
UtilsDens == {"DensKL", "DensAll"}
IsDens == util \in UtilsDens
\* NLL is accumulated from .item() values: a Python float
IsFloatObjective == util \in {"PosNLL", "CplxNLL"}

\* ------------------------------------------------------------------- Init
InitGrad ==
    /\ util \in Utils1D \cup UtilsDens
    /\ eps \in -1..MaxEps
    /\ \E base \in 0..MaxBase :
         \/ /\ util \in Utils1D
            /\ \E sh \in Shapes1D : nn = << <<NewTensor(sh, base)>> >>
         \/ /\ util = "DensKL"
            /\ \E sh \in Shapes1D \cup Shapes2D :
                 nn = << <<NewTensor(sh, base)>> >>
         \/ /\ util = "DensAll"
            /\ \E nnets \in 1..MaxNets, npars \in 1..MaxPars,
                  sh \in Shapes1D \cup Shapes2D :
                 nn = [n \in 1..nnets |->
                        [p \in 1..npars |->
                           NewTensor(sh, base + 10 * n + 100 * p)]]
    /\ nn0 = nn
    /\ at_call = nn
    /\ net = 1
    /\ par = 1
    /\ i = 0
    /\ pc = IF util = "DensAll" THEN "net_loop" ELSE "call"
    /\ Z = NoZ
    /\ KL_p = NoValue
    /\ KL_m = NoValue
    /\ num_gradKL = <<>>
    /\ num_grad = <<>>
    /\ num_grads = <<>>
    /\ result = <<>>
    /\ err = "none"
    /\ trace = <<>>


\* ------------------------------------------------ writes to the parameter
\* param is nn[net][par] itself (for DensityGradsUtils its view(-1), which
\* shares the storage): param[k] += d
AddAt(m, k, d) == [m EXCEPT ![net][par].data[k + 1] = @ + d]

\* a slip: param += eps, which displaces every entry of the tensor
add_eps_all(m) ==
    [m EXCEPT ![net][par].data = [k \in DOMAIN @ |-> @[k] + eps]]

\* param[i] += eps            (the first write of the loop body)
add_eps(m) == AddAt(m, i, eps)

\* a slip: param[i] -= eps, which only undoes the first displacement
sub_eps(m) == AddAt(m, i, -eps)

\* param[i] -= 2 * eps
sub_2eps(m) == AddAt(m, i, -(2 * eps))

\* a slip: the last write left out
restore_missing(m) == m

\* param[i] += eps            (the last write of the loop body)
restore_eps(m) == AddAt(m, i, eps)

\* len(param): the number of storage cells of the (flattened) tensor
len_param == Numel(nn[net][par].shape)

Event(ev, e) == [ev |-> ev, raised |-> e]

LibErrors == {"RuntimeError", "ValueError"}

\* a recovery the code does not have: try/finally putting the parameters back
Propagate_undo(ev, e) ==
    /\ err' = e
    /\ pc' = "raised"
    /\ trace' = Append(trace, Event(ev, e))
    /\ nn' = at_call
    /\ UNCHANGED <<not_g, util, nn0, at_call, eps, net, par, i, Z, KL_p, KL_m,
                   num_gradKL, num_grad, num_grads, result>>

\* A call into the library raises e: nothing in these functions catches it,
\* so the running function (and all_num_grads above it) ends with e.
Propagate(ev, e) ==
    /\ err' = e
    /\ pc' = "raised"
    /\ trace' = Append(trace, Event(ev, e))
    /\ UNCHANGED <<not_g, util, nn, nn0, at_call, eps, net, par, i, Z, KL_p, KL_m,
                   num_gradKL, num_grad, num_grads, result>>

\* ---------------------------------------------------------- numeric_grad*
\* entry: num_gradKL = []  (and param = param.view(-1) for the density class)
numeric_grad_call ==
    /\ pc = "call"
    /\ num_gradKL' = <<>>
    /\ i' = 0
    /\ at_call' = nn
    /\ pc' = "loop"
    /\ UNCHANGED <<not_g, util, nn, nn0, eps, net, par, Z, KL_p, KL_m, num_grad,
                   num_grads, result, err, trace>>

numeric_grad_add_eps ==
    /\ pc = "loop"
    /\ i < len_param
    /\ nn' = add_eps(nn)
    /\ trace' = Append(trace, Event("write", "none"))
    /\ pc' = IF IsDens THEN "obj_p" ELSE "norm_p"
    /\ UNCHANGED <<not_g, util, nn0, at_call, eps, net, par, i, Z, KL_p, KL_m,
                   num_gradKL, num_grad, num_grads, result, err>>

\* Z = self.nn_state.compute_normalization(vis)
numeric_grad_norm(here, next) ==
    /\ pc = here
    /\ \/ /\ Z' = compute_normalization(nn)
          /\ trace' = Append(trace, Event("norm", "none"))
          /\ pc' = next
          /\ UNCHANGED <<not_g, util, nn, nn0, at_call, eps, net, par, i, KL_p,
                         KL_m, num_gradKL, num_grad, num_grads, result, err>>
       \/ \E e \in LibErrors : Propagate("norm", e)

numeric_grad_norm_p == numeric_grad_norm("norm_p", "obj_p")

\* a slip: the second normalization left out, so KL_m gets the Z of KL_p
numeric_grad_norm_m_skipped ==
    /\ pc = "norm_m"
    /\ pc' = "obj_m"
    /\ UNCHANGED <<not_g, util, nn, nn0, at_call, eps, net, par, i, Z, KL_p, KL_m,
                   num_gradKL, num_grad, num_grads, result, err, trace>>

numeric_grad_norm_m == numeric_grad_norm("norm_m", "obj_m")

\* the Z handed to the objective: the local Z (the density class has none)
ZArg == IF IsDens THEN NoZ ELSE Z

\* KL_p = self.compute_numerical_kl(target_psi, vis, Z)
numeric_grad_obj_p ==
    /\ pc = "obj_p"
    /\ \/ /\ KL_p' = Objective(nn, ZArg)
          /\ trace' = Append(trace, Event("obj", "none"))
          /\ pc' = "sub"
          /\ UNCHANGED <<not_g, util, nn, nn0, at_call, eps, net, par, i, Z, KL_m,
                         num_gradKL, num_grad, num_grads, result, err>>
       \/ \E e \in LibErrors : Propagate("obj", e)

numeric_grad_sub_2eps ==
    /\ pc = "sub"
    /\ nn' = sub_2eps(nn)
    /\ trace' = Append(trace, Event("write", "none"))
    /\ pc' = IF IsDens THEN "obj_m" ELSE "norm_m"
    /\ UNCHANGED <<not_g, util, nn0, at_call, eps, net, par, i, Z, KL_p, KL_m,
                   num_gradKL, num_grad, num_grads, result, err>>

\* KL_m = self.compute_numerical_kl(target_psi, vis, Z)
numeric_grad_obj_m ==
    /\ pc = "obj_m"
    /\ \/ /\ KL_m' = Objective(nn, ZArg)
          /\ trace' = Append(trace, Event("obj", "none"))
          /\ pc' = "restore"
          /\ UNCHANGED <<not_g, util, nn, nn0, at_call, eps, net, par, i, Z, KL_p,
                         num_gradKL, num_grad, num_grads, result, err>>
       \/ \E e \in LibErrors : Propagate("obj", e)

numeric_grad_restore ==
    /\ pc = "restore"
    /\ nn' = restore_eps(nn)
    /\ trace' = Append(trace, Event("write", "none"))
    /\ pc' = "append"
    /\ UNCHANGED <<not_g, util, nn0, at_call, eps, net, par, i, Z, KL_p, KL_m,
                   num_gradKL, num_grad, num_grads, result, err>>

\* (KL_p - KL_m) / (2 * eps)
central_difference(p, m, e) == Quotient(p, m, 2 * e)

\* num_gradKL.append((KL_p - KL_m) / (2 * eps)).  With eps = 0 a tensor
\* quotient is inf/nan (kept as a quotient with den = 0) and a float
\* quotient raises ZeroDivisionError; density_matrix_KL belongs to the
\* library and may return either kind.
numeric_grad_append ==
    /\ pc = "append"
    /\ \/ /\ eps # 0 \/ ~IsFloatObjective
          /\ num_gradKL' = Append(num_gradKL, central_difference(KL_p, KL_m, eps))
          /\ i' = i + 1
          /\ pc' = "loop"
          /\ UNCHANGED <<not_g, util, nn, nn0, at_call, eps, net, par, Z, KL_p, KL_m,
                         num_grad, num_grads, result, err, trace>>
       \/ /\ eps = 0
          /\ IsFloatObjective \/ IsDens
          /\ err' = "ZeroDivisionError"
          /\ pc' = "raised"
          /\ UNCHANGED <<not_g, util, nn, nn0, at_call, eps, net, par, i, Z, KL_p,
                         KL_m, num_gradKL, num_grad, num_grads, result, trace>>

\* return torch.stack(num_gradKL).to(param)
numeric_grad_return ==
    /\ pc = "loop"
    /\ i >= len_param
    /\ result' = num_gradKL
    /\ pc' = "returned"
    /\ UNCHANGED <<not_g, util, nn, nn0, at_call, eps, net, par, i, Z, KL_p, KL_m,
                   num_gradKL, num_grad, num_grads, err, trace>>

\* ----------------------------------------- DensityGradsUtils.all_num_grads
\* for _n, net in enumerate(self.nn_state.networks)
all_num_grads_net ==
    /\ pc = "net_loop"
    /\ net <= Len(nn)
    /\ num_grad' = <<>>
    /\ par' = 1
    /\ pc' = "par_loop"
    /\ UNCHANGED <<not_g, util, nn, nn0, at_call, eps, net, i, Z, KL_p, KL_m,
                   num_gradKL, num_grads, result, err, trace>>

\* for param in rbm.parameters(): ... self.numeric_gradKL(param, ...)
all_num_grads_param ==
    /\ pc = "par_loop"
    /\ par <= Len(nn[net])
    /\ pc' = "call"
    /\ UNCHANGED <<not_g, util, nn, nn0, at_call, eps, net, par, i, Z, KL_p, KL_m,
                   num_gradKL, num_grad, num_grads, result, err, trace>>

\* num_grad = torch.cat((num_grad, <the returned gradient>))
all_num_grads_cat ==
    /\ pc = "returned"
    /\ util = "DensAll"
    /\ num_grad' = num_grad \o result
    /\ par' = par + 1
    /\ pc' = "par_loop"
    /\ UNCHANGED <<not_g, util, nn, nn0, at_call, eps, net, i, Z, KL_p, KL_m,
                   num_gradKL, num_grads, result, err, trace>>

\* num_grads.append(num_grad)
all_num_grads_append ==
    /\ pc = "par_loop"
    /\ par > Len(nn[net])
    /\ num_grads' = Append(num_grads, num_grad)
    /\ net' = net + 1
    /\ pc' = "net_loop"
    /\ UNCHANGED <<not_g, util, nn, nn0, at_call, eps, par, i, Z, KL_p, KL_m,
                   num_gradKL, num_grad, result, err, trace>>

\* return num_grads
all_num_grads_return ==
    /\ pc = "net_loop"
    /\ net > Len(nn)
    /\ pc' = "all_returned"
    /\ UNCHANGED <<not_g, util, nn, nn0, at_call, eps, net, par, i, Z, KL_p, KL_m,
                   num_gradKL, num_grad, num_grads, result, err, trace>>

NextGrad ==
    \/ numeric_grad_call
    \/ numeric_grad_add_eps
    \/ numeric_grad_norm_p
    \/ numeric_grad_obj_p
    \/ numeric_grad_sub_2eps
    \/ numeric_grad_norm_m
    \/ numeric_grad_obj_m
    \/ numeric_grad_restore
    \/ numeric_grad_append
    \/ numeric_grad_return
    \/ all_num_grads_net
    \/ all_num_grads_param
    \/ all_num_grads_cat
    \/ all_num_grads_append
    \/ all_num_grads_return

GradInit ==
    InitGrad /\ IdlePlot /\ IdleNLL /\ IdleRot /\ IdleLoad /\ IdleBases

SpecGrad == GradInit /\ [][NextGrad]_vars


\* ======================================================= claims, SpecGrad
Displace(m, n, p, k, d) == [m EXCEPT ![n][p].data[k + 1] = @ + d]

\* the objective f of a model m: evaluated with the Z of m itself
F(m) == Objective(m, IF IsDens THEN NoZ ELSE compute_normalization(m))

Running == {"norm_p", "obj_p", "sub", "norm_m", "obj_m", "restore", "raised"}

\* C1 (as stated): the parameter tensor is never written at any point of the
\* call: the model's storage always equals what it was at the start.
C1_ParamNeverWritten == nn = nn0

\* C1 (amended): the only shared resource written is the parameter tensor
\* handed to numeric_grad*: during a call the storage differs from its value
\* at call start at most in entry i of that tensor, by +eps or -eps, and
\* only between the first and the last write of the loop body.
C1_WritesConfinedToEntry ==
    /\ DOMAIN nn = DOMAIN at_call
    /\ \A n \in DOMAIN nn :
         /\ DOMAIN nn[n] = DOMAIN at_call[n]
         /\ \A p \in DOMAIN nn[n] :
              /\ nn[n][p].shape = at_call[n][p].shape
              /\ DOMAIN nn[n][p].data = DOMAIN at_call[n][p].data
              /\ \A k \in DOMAIN nn[n][p].data :
                   nn[n][p].data[k] # at_call[n][p].data[k] =>
                     /\ n = net /\ p = par /\ k = i + 1
                     /\ pc \in Running
                     /\ nn[n][p].data[k] - at_call[n][p].data[k] \in {eps, -eps}

C1_Witness == pc = "obj_m" /\ i >= 1 /\ nn # at_call /\ nn # nn0

\* C2: a library call that raises ends the function at once with that same
\* error: no step follows an error, the failing call is the last event and
\* the only one that raised, no parameter is written and no value returned,
\* so the displacement of param[i] is still in place.
C2_ErrorsPropagate ==
    [][ /\ err = "none"
        /\ err' \in LibErrors =>
             /\ pc' = "raised"
             /\ nn' = nn
             /\ result' = result
             /\ num_gradKL' = num_gradKL
             /\ num_grads' = num_grads
             /\ Len(trace') = Len(trace) + 1
             /\ trace'[Len(trace')].raised = err'
             /\ trace'[Len(trace')].ev \in {"norm", "obj"}
             /\ \A k \in 1..Len(trace) : trace'[k].raised = "none"
             /\ eps # 0 =>
                  nn'[net][par].data[i + 1] - at_call'[net][par].data[i + 1]
                     \in {eps, -eps} ]_vars

C2_Witness ==
    /\ err \in LibErrors /\ pc = "raised" /\ i >= 1 /\ eps # 0
    /\ nn # at_call
    /\ trace[Len(trace)].raised = err

\* C3: a call that returns with eps # 0 returns one entry per storage cell
\* of the parameter, in index order, entry k being
\* (f(p + eps*e_k) - f(p - eps*e_k)) / (2*eps) with every other entry at
\* the value it had when the call started.
C3_CentralDifference ==
    (pc = "returned" /\ eps # 0) =>
        /\ Len(result) = Numel(at_call[net][par].shape)
        /\ \A k \in 0..(Len(result) - 1) :
             result[k + 1] =
                Quotient(F(Displace(at_call, net, par, k, eps)),
                         F(Displace(at_call, net, par, k, -eps)),
                         2 * eps)

C3_Witness ==
    /\ pc = "returned" /\ eps # 0 /\ Len(result) >= 3
    /\ util = "CplxNLL"

\* C5: when numeric_grad* returns, every entry of every parameter tensor has
\* the value it had when the call started, and when all_num_grads returns
\* the value it had when all_num_grads started; for every eps.
C5_NoNetEffect ==
    /\ pc = "returned" =>
         \A n \in DOMAIN nn : \A p \in DOMAIN nn[n] :
            /\ nn[n][p].shape = at_call[n][p].shape
            /\ \A r \in 0..(nn[n][p].shape[1] - 1) :
                 \A c \in 0..((IF Len(nn[n][p].shape) = 1
                                THEN 1 ELSE nn[n][p].shape[2]) - 1) :
                    At(nn[n][p], r, c) = At(at_call[n][p], r, c)
    /\ pc = "all_returned" => nn = nn0

C5_Witness ==
    /\ pc = "all_returned" /\ eps # 0
    /\ Len(nn) >= 2 /\ Len(nn[1]) >= 2 /\ Len(nn[1][1].shape) = 2
    /\ Len(trace) > 0

NonWrites == SelectSeq(trace, LAMBDA e : e.ev # "write")

\* C6: in the positive and complex classes every objective evaluation comes
\* right after a compute_normalization call with no write between the two,
\* the Z it is given is that of the parameters in force, and a full call
\* makes 2*len(param) calls of each, alternating.
C6_NormalizationFresh ==
    util \in Utils1D =>
        /\ \A k \in 1..Len(trace) :
             trace[k].ev = "obj" => k > 1 /\ trace[k - 1].ev = "norm"
        /\ KL_p # NoValue => KL_p.Z = compute_normalization(KL_p.of)
        /\ KL_m # NoValue => KL_m.Z = compute_normalization(KL_m.of)
        /\ pc = "returned" =>
             /\ Len(NonWrites) = 4 * len_param
             /\ \A k \in 1..Len(NonWrites) :
                  NonWrites[k].ev = IF k % 2 = 1 THEN "norm" ELSE "obj"

C6_Witness ==
    /\ util = "PosKL" /\ pc = "returned" /\ len_param >= 2 /\ eps # 0
    /\ Len(NonWrites) = 4 * len_param


\* ============================================================ plotWeights
WeightVals == {-2, 1}
BiasVals   == {0, 1}

RECURSIVE SumSeq(_)
SumSeq(q) == IF q = <<>> THEN 0 ELSE q[1] + SumSeq(Tail(q))

\* np.sum(weights, axis = 1): one sum per row
sum_axis1(w) == [r \in DOMAIN w |-> SumSeq(w[r])]

\* np.sum(weights, axis = 0): one sum per column
sum_axis0(w) ==
    [c \in DOMAIN w[1] |-> SumSeq([r \in DOMAIN w |-> w[r][c]])]

\* numpy's error state for a division by zero: the script never changes the
\* default, under which a zero divisor gives inf or nan and a RuntimeWarning
\* a Python-scalar division would raise instead
np_errstate_raise == "raise"

np_errstate_divide == "warn"

\* one entry of a / b on float arrays
np_divide1(ys, ds) ==
    IF ds # 0 THEN [val |-> "finite", num |-> ys, den |-> ds]
    ELSE [val |-> IF ys > 0 THEN "inf" ELSE IF ys < 0 THEN "-inf" ELSE "nan",
          num |-> ys, den |-> ds]

\* a / b, elementwise
np_divide(ys, ds) == [k \in DOMAIN ys |-> np_divide1(ys[k], ds[k])]

\* whether a / b raises
divide_raises(ds) ==
    np_errstate_divide = "raise" /\ \E k \in DOMAIN ds : ds[k] = 0

Abs(n) == IF n < 0 THEN -n ELSE n

\* abs(row), elementwise
np_abs(row) == [k \in DOMAIN row |-> Abs(row[k])]

\* np.argmax(vals): a scan that keeps the first of equal maxima (0-based)
RECURSIVE argmax_scan(_, _, _)
argmax_scan(vals, k, best) ==
    IF k >= Len(vals) THEN best
    ELSE argmax_scan(vals, k + 1,
                     IF vals[k + 1] > vals[best + 1] THEN k ELSE best)

np_argmax(vals) == argmax_scan(vals, 1, 0)

\* a slip: the abs left out, which picks the largest signed weight
argmax_signed(row) == np_argmax(row)

\* np.argmax(abs(weights[i]))
argmax_abs(row) == np_argmax(np_abs(row))

InitPlot ==
    /\ \E H \in 1..MaxH, V \in 1..MaxV :
         \E w \in [1..H -> [1..V -> WeightVals]],
            vb \in [1..V -> BiasVals], hb \in [1..H -> BiasVals] :
            params = [visible_bias |-> vb, hidden_bias |-> hb, weights |-> w]
    /\ visibleBias = <<>> /\ hiddenBias = <<>> /\ weights = <<>>
    /\ rowSums = <<>> /\ colSums = <<>>
    /\ vbiases = <<>> /\ hbiases = <<>> /\ prow = 0
    /\ shown = <<>> /\ ppc = "script" /\ perr = "none"
    /\ model = "none" /\ plot_calls = 0

\* the module-level list of model files
models ==
    << "Data/TFIM1D/NhStudy/Q10/39/Nh5/model.pt",
       "Data/TFIM1D/NhStudy/Q20/22/Nh10/model.pt",
       "Data/TFIM1D/NhStudy/Q30/38/Nh14/model.pt",
       "Data/TFIM1D/NhStudy/Q40/12/Nh19/model.pt",
       "Data/TFIM1D/NhStudy/Q50/16/Nh25/model.pt",
       "Data/TFIM1D/NhStudy/Q60/47/Nh30/model.pt",
       "Data/TFIM1D/NhStudy/Q70/24/Nh35/model.pt",
       "Data/TFIM1D/NhStudy/Q80/29/Nh40/model.pt",
       "Data/TFIM1D/NhStudy/Q90/55/Nh45/model.pt",
       "Data/TFIM1D/NhStudy/Q100/66/Nh50/model.pt" >>

\* plotWeights(models[0]): the only statement of the script after the list
script_call_plotWeights ==
    /\ ppc = "script"
    /\ model' = models[0 + 1]
    /\ plot_calls' = plot_calls + 1
    /\ ppc' = "load"
    /\ UNCHANGED <<not_p, params, visibleBias, hiddenBias, weights, rowSums,
                   colSums, vbiases, hbiases, prow, shown, perr>>

Figure(xlabel, s1, s2, s3) ==
    [xlabel |-> xlabel, series |-> <<s1, s2, s3>>]

\* nn_state = PositiveWavefunction.autoload(model) ... colSums = np.sum(...)
plotWeights_load ==
    /\ ppc = "load"
    /\ \/ /\ visibleBias' = params.visible_bias
          /\ hiddenBias' = params.hidden_bias
          /\ weights' = params.weights
          /\ rowSums' = sum_axis1(params.weights)
          /\ colSums' = sum_axis0(params.weights)
          /\ ppc' = "rows"
          /\ UNCHANGED <<not_p, model, plot_calls, params, vbiases, hbiases, prow, shown, perr>>
       \/ /\ \E e \in LibErrors : perr' = e
          /\ ppc' = "raised"
          /\ UNCHANGED <<not_p, model, plot_calls, params, visibleBias, hiddenBias, weights,
                         rowSums, colSums, vbiases, hbiases, prow, shown>>

\* one figure: the two series, their ratio, plt.show()
plot_figure(here, next, xlabel, ys, ds) ==
    /\ ppc = here
    /\ IF divide_raises(ds)
       THEN /\ perr' = "ZeroDivisionError"
            /\ ppc' = "raised"
            /\ UNCHANGED shown
       ELSE /\ shown' = Append(shown, Figure(xlabel, ys, ds, np_divide(ys, ds)))
            /\ ppc' = next
            /\ UNCHANGED perr
    /\ UNCHANGED <<not_p, model, plot_calls, params, visibleBias, hiddenBias, weights, rowSums,
                   colSums, vbiases, hbiases, prow>>

\* the first figure: rowSums, hiddenBias, rowSums/hiddenBias
plotWeights_rows == plot_figure("rows", "cols", "Row", rowSums, hiddenBias)

\* the second figure: colSums, visibleBias, colSums/visibleBias
plotWeights_cols ==
    plot_figure("cols", "strong", "Column", colSums, visibleBias)

\* for i in range(len(weights)): ... vbiases.append(vbias); hbiases.append(hbias)
plotWeights_strong ==
    /\ ppc = "strong"
    /\ prow < Len(weights)
    /\ LET vindex == argmax_abs(weights[prow + 1])
           vbias  == visibleBias[vindex + 1]
           hbias  == hiddenBias[prow + 1]
       IN /\ vbiases' = Append(vbiases, vbias)
          /\ hbiases' = Append(hbiases, hbias)
    /\ prow' = prow + 1
    /\ UNCHANGED <<not_p, model, plot_calls, params, visibleBias, hiddenBias, weights, rowSums,
                   colSums, shown, ppc, perr>>

plotWeights_strong_end ==
    /\ ppc = "strong"
    /\ prow >= Len(weights)
    /\ ppc' = "coupling"
    /\ UNCHANGED <<not_p, model, plot_calls, params, visibleBias, hiddenBias, weights, rowSums,
                   colSums, vbiases, hbiases, prow, shown, perr>>

\* the third figure: vbiases, hbiases, vbiases/hbiases
plotWeights_coupling ==
    plot_figure("coupling", "done", "Row", vbiases, hbiases)

NextPlot ==
    \/ script_call_plotWeights
    \/ plotWeights_load
    \/ plotWeights_rows
    \/ plotWeights_cols
    \/ plotWeights_strong
    \/ plotWeights_strong_end
    \/ plotWeights_coupling

PlotInit ==
    InitPlot /\ IdleGrad /\ IdleNLL /\ IdleRot /\ IdleLoad /\ IdleBases

SpecPlot == PlotInit /\ [][NextPlot]_vars

\* ------------------------------------------------------- claims, SpecPlot
HasZero(ds) == \E k \in DOMAIN ds : ds[k] = 0

\* C4 (as stated): a zero entry of a bias makes the ratio raise a
\* division-by-zero error, and no figure from the failing ratio on is shown:
\* with a zero in the hidden bias none, with one only in the visible bias
\* at most the first.
C4_ZeroBiasRaises ==
    /\ HasZero(params.hidden_bias) =>
          shown = <<>> /\ ppc \in {"script", "load", "rows", "raised"}
    /\ HasZero(params.visible_bias) =>
          Len(shown) <= 1
             /\ ppc \in {"script", "load", "rows", "cols", "raised"}

\* C4 (amended): a zero entry of a bias raises nothing: the ratio has inf
\* (or nan for 0/0) exactly at the zero entries of the divisor, every figure
\* is still drawn and shown, and plotWeights returns normally.
C4_ZeroBiasGivesInf ==
    /\ perr # "ZeroDivisionError"
    /\ \A f \in 1..Len(shown) :
         LET ys == shown[f].series[1]
             ds == shown[f].series[2]
             q == shown[f].series[3]
         IN /\ DOMAIN q = DOMAIN ys
            /\ \A k \in DOMAIN q :
                 /\ ds[k] = 0 <=> q[k].val \in {"inf", "-inf", "nan"}
                 /\ ds[k] # 0 => q[k] = [val |-> "finite", num |-> ys[k], den |-> ds[k]]
                 /\ ds[k] = 0 =>
                      q[k].val = IF ys[k] > 0 THEN "inf"
                                 ELSE IF ys[k] < 0 THEN "-inf" ELSE "nan"
    /\ ppc = "done" => Len(shown) = 3
    /\ ppc = "cols" => Len(shown) = 1
    /\ ppc \in {"strong", "coupling"} => Len(shown) = 2

C4_Witness ==
    /\ ppc = "done" /\ Len(shown) = 3
    /\ HasZero(params.hidden_bias) /\ HasZero(params.visible_bias)
    /\ \E k \in DOMAIN shown[1].series[3] : shown[1].series[3][k].val = "inf"
    /\ \E k \in DOMAIN shown[3].series[3] : shown[3].series[3][k].val = "nan"

\* whether column j (1-based) is the first to reach the largest |w| of a row
FirstStrongest(row, j) ==
    /\ \A k \in 1..Len(row) : Abs(row[k]) <= Abs(row[j])
    /\ \A k \in 1..(j - 1) : Abs(row[k]) < Abs(row[j])

\* C11: vbiases and hbiases get one entry per row of weights, hbiases[i] =
\* hiddenBias[i] and vbiases[i] = visibleBias[j] for the smallest column j
\* that maximizes |weights[i][j]|; a complete plotWeights shows exactly
\* three figures, row sums, column sums and strong coupling in this order;
\* and the script calls plotWeights exactly once, on models[0].
C11_StrongCoupling ==
    LET w  == params.weights
        vb == params.visible_bias
        hb == params.hidden_bias
    IN /\ Len(vbiases) = Len(hbiases)
       /\ Len(hbiases) <= Len(w)
       /\ ppc \in {"coupling", "done"} => Len(hbiases) = Len(w)
       /\ \A r \in 1..Len(hbiases) :
            /\ hbiases[r] = hb[r]
            /\ \E j \in 1..Len(w[r]) :
                 FirstStrongest(w[r], j) /\ vbiases[r] = vb[j]
       /\ ppc = "done" =>
            /\ Len(shown) = 3
            /\ shown[1].xlabel = "Row"
            /\ shown[1].series[1] = [r \in 1..Len(w) |-> SumSeq(w[r])]
            /\ shown[1].series[2] = hb
            /\ shown[2].xlabel = "Column"
            /\ shown[2].series[1] =
                 [c \in 1..Len(w[1]) |-> SumSeq([r \in 1..Len(w) |-> w[r][c]])]
            /\ shown[2].series[2] = vb
            /\ shown[3].xlabel = "Row"
            /\ shown[3].series[1] = vbiases
            /\ shown[3].series[2] = hbiases
       /\ ppc = "script" => plot_calls = 0
       /\ ppc # "script" =>
            /\ plot_calls = 1
            /\ model = "Data/TFIM1D/NhStudy/Q10/39/Nh5/model.pt"

C11_Witness ==
    /\ ppc = "done" /\ plot_calls = 1 /\ Len(shown) = 3
    /\ params.weights = << <<1, -2>>, <<1, 1>> >>
    /\ params.visible_bias = <<0, 1>>
    /\ vbiases = <<1, 0>>
    /\ hbiases = params.hidden_bias


\* ================================= ComplexGradsUtils.compute_numerical_NLL
BasisChars == {"X", "Z"}

\* 1 << n
RECURSIVE Pow2(_)
Pow2(n) == IF n = 0 THEN 1 ELSE 2 * Pow2(n - 1)

\* for j in range(num_visible): if data_bases[i][j] != "Z": b_flag = 1
\* (b_flag is set to 0 once, before the loop over the batch)
RECURSIVE scan_b_flag(_, _, _)
scan_b_flag(flag, bs, j) ==
    IF j >= Len(bs) THEN flag
    ELSE scan_b_flag(IF bs[j + 1] # "Z" THEN 1 ELSE flag, bs, j + 1)

\* str(i) of a bit
str_bit(bit) == IF bit = 0 THEN "0" ELSE "1"

\* "".join(str(i) for i in bitstate)
join_bits(bitstate) == [k \in DOMAIN bitstate |-> str_bit(bitstate[k])]

\* a slip: the digits read least significant first
RECURSIVE int_base2_reversed(_)
int_base2_reversed(digits) ==
    IF digits = <<>> THEN 0
    ELSE 2 * int_base2_reversed(Tail(digits))
           + (IF Head(digits) = "1" THEN 1 ELSE 0)

\* int(s, 2): the digits read most significant first
RECURSIVE int_base2(_)
int_base2(digits) ==
    IF digits = <<>> THEN 0
    ELSE 2 * int_base2(SubSeq(digits, 1, Len(digits) - 1))
           + (IF digits[Len(digits)] = "1" THEN 1 ELSE 0)

InitNLL ==
    /\ num_visible \in 1..MaxN
    /\ \E batch_size \in 0..MaxBatch :
         /\ data_samples \in [1..batch_size -> [1..num_visible -> {0, 1}]]
         /\ data_bases \in [1..batch_size -> [1..num_visible -> BasisChars]]
    /\ n_i = 0 /\ b_flag = 0 /\ ind = 0 /\ NLL = <<>>
    /\ npc = "loop"

\* one iteration of the loop over the batch
compute_numerical_NLL_sample ==
    /\ npc = "loop"
    /\ n_i < Len(data_samples)
    /\ LET flag     == scan_b_flag(b_flag, data_bases[n_i + 1], 0)
           bitstate == data_samples[n_i + 1]
           index    == int_base2(join_bits(bitstate))
       IN /\ b_flag' = flag
          /\ ind' = index
          /\ NLL' = Append(NLL,
                IF flag = 0
                THEN [branch |-> "probability",
                      sample |-> data_samples[n_i + 1],
                      basis |-> <<>>, ind |-> index]
                ELSE [branch |-> "rotate_psi",
                      sample |-> data_samples[n_i + 1],
                      basis |-> data_bases[n_i + 1], ind |-> index])
    /\ n_i' = n_i + 1
    /\ UNCHANGED <<not_n, num_visible, data_samples, data_bases, npc>>

\* return NLL
compute_numerical_NLL_return ==
    /\ npc = "loop"
    /\ n_i >= Len(data_samples)
    /\ npc' = "done"
    /\ UNCHANGED <<not_n, num_visible, data_samples, data_bases, n_i, b_flag,
                   ind, NLL>>

NextNLL ==
    \/ compute_numerical_NLL_sample
    \/ compute_numerical_NLL_return

NLLInit ==
    InitNLL /\ IdleGrad /\ IdlePlot /\ IdleRot /\ IdleLoad /\ IdleBases

SpecNLL == NLLInit /\ [][NextNLL]_vars

\* -------------------------------------------------------- claims, SpecNLL
AllZ(bs) == \A j \in DOMAIN bs : bs[j] = "Z"

\* C7: every sample takes the un-rotated branch exactly when every character
\* of its own basis is 'Z', and the rotated branch exactly when its own
\* basis has a non-'Z' character, whatever the bases of earlier samples.
C7_BranchByOwnBasis ==
    \A k \in 1..Len(NLL) :
        NLL[k].branch =
            IF AllZ(data_bases[k]) THEN "probability" ELSE "rotate_psi"

\* the integer whose binary representation, most significant bit first, is
\* the given bits
RECURSIVE BinaryValue(_)
BinaryValue(bits) ==
    IF bits = <<>> THEN 0
    ELSE Head(bits) * Pow2(Len(bits) - 1) + BinaryValue(Tail(bits))

\* C12: for every sample of num_visible bits, ind is the integer whose N-bit
\* binary representation, most significant bit first, is the sample; so
\* 0 <= ind < 2^N, psi_r[:, ind] is one of the 2^N columns of the result of
\* rotate_psi, and two samples get the same ind only if they are the same
\* bit string.
C12_IndexInRange ==
    /\ \A k \in 1..Len(NLL) :
         /\ NLL[k].sample = data_samples[k]
         /\ NLL[k].ind = BinaryValue(data_samples[k])
         /\ 0 <= NLL[k].ind /\ NLL[k].ind < Pow2(num_visible)
         /\ (NLL[k].ind + 1) \in 1..Pow2(num_visible)
    /\ \A k \in 1..Len(NLL) : \A m \in 1..Len(NLL) :
         NLL[k].ind = NLL[m].ind => data_samples[k] = data_samples[m]
    /\ n_i > 0 => ind = NLL[n_i].ind

C12_Witness ==
    /\ npc = "done" /\ num_visible = 2 /\ Len(NLL) = 2
    /\ NLL[1].branch = "rotate_psi" /\ NLL[1].sample = <<0, 1>>
    /\ NLL[1].ind = 1
    /\ NLL[2].branch = "rotate_psi" /\ NLL[2].sample = <<1, 0>>
    /\ NLL[2].ind = 2

\* ============================================ ComplexGradsUtils.rotate_psi
RotChars == {"X", "Y", "Z"}

\* self.nn_state.generate_hilbert_space(n): the 2^n rows of n bits, row k
\* being k written in binary, most significant bit first
generate_hilbert_space(n) ==
    [k \in 1..Pow2(n) |-> [j \in 1..n |-> ((k - 1) \div Pow2(n - j)) % 2]]

\* for j in range(N): if basis[j] != "Z": nontrivial_sites.append(j)
RECURSIVE scan_sites(_, _, _)
scan_sites(bs, j, sites) ==
    IF j >= Len(bs) THEN sites
    ELSE scan_sites(bs, j + 1,
                    IF bs[j + 1] # "Z" THEN Append(sites, j) ELSE sites)

\* for j in range(N): v[j] = sub_state[xp][cnt] (cnt += 1) or vis[x, j]
RECURSIVE fill_v(_, _, _)
fill_v(vv, j, cnt) ==
    IF j >= N THEN vv
    ELSE IF basis[j + 1] # "Z"
         THEN fill_v([vv EXCEPT ![j + 1] = sub_state[xp + 1][cnt + 1]],
                     j + 1, cnt + 1)
         ELSE fill_v([vv EXCEPT ![j + 1] = vis[x + 1][j + 1]], j + 1, cnt)

\* a slip: the two indices exchanged (the transposed matrix element)
unitary_entry_transposed(site, vv) ==
    [U |-> basis[site + 1], row |-> vv[site + 1], col |-> vis[x + 1][site + 1]]

\* unitary_dict[basis[site]][:, int(vis[x][site]), int(v[site])]
unitary_entry(site, vv) ==
    [U |-> basis[site + 1], row |-> vis[x + 1][site + 1], col |-> vv[site + 1]]

\* U = [1, 0]; for ii in range(num_nontrivial_U): U = scalar_mult(U, tmp)
\* the product, as the sequence of its factors
coefficient(vv) ==
    [ii \in 1..num_nontrivial_U |-> unitary_entry(nontrivial_sites[ii], vv)]

\* self.nn_state.psi(v)
psi(vv) == [fn |-> "psi", v |-> vv]

InitRot ==
    /\ N \in 1..MaxN
    /\ basis \in [1..N -> RotChars]
    /\ \/ vis = generate_hilbert_space(N)
       \/ vis = [k \in 1..Pow2(N) |-> generate_hilbert_space(N)[Pow2(N) + 1 - k]]
    /\ x = 0 /\ xp = 0
    /\ v = [j \in 1..N |-> 0]
    /\ num_nontrivial_U = 0 /\ nontrivial_sites = <<>> /\ sub_state = <<>>
    /\ Upsi = <<>>
    /\ psi_r = [k \in 1..Pow2(N) |-> <<>>]
    /\ rpc = "x"

\* for x in range(1 << N): Upsi = 0, the nontrivial sites, sub_state
rotate_psi_x ==
    /\ rpc = "x"
    /\ x < Pow2(N)
    /\ Upsi' = <<>>
    /\ nontrivial_sites' = scan_sites(basis, 0, <<>>)
    /\ num_nontrivial_U' = Len(nontrivial_sites')
    /\ sub_state' = generate_hilbert_space(num_nontrivial_U')
    /\ xp' = 0
    /\ rpc' = "xp"
    /\ UNCHANGED <<not_r, N, basis, vis, x, v, psi_r>>

\* for xp in range(1 << num_nontrivial_U): v, U, Upsi += U * psi(v)
rotate_psi_xp ==
    /\ rpc = "xp"
    /\ xp < Pow2(num_nontrivial_U)
    /\ v' = fill_v(v, 0, 0)
    /\ Upsi' = Append(Upsi, [U |-> coefficient(v'), psi |-> psi(v')])
    /\ xp' = xp + 1
    /\ UNCHANGED <<not_r, N, basis, vis, x, num_nontrivial_U,
                   nontrivial_sites, sub_state, psi_r, rpc>>

\* psi_r[:, x] = Upsi
rotate_psi_store ==
    /\ rpc = "xp"
    /\ xp >= Pow2(num_nontrivial_U)
    /\ psi_r' = [psi_r EXCEPT ![x + 1] = Upsi]
    /\ x' = x + 1
    /\ rpc' = "x"
    /\ UNCHANGED <<not_r, N, basis, vis, xp, v, num_nontrivial_U,
                   nontrivial_sites, sub_state, Upsi>>

\* return psi_r
rotate_psi_return ==
    /\ rpc = "x"
    /\ x >= Pow2(N)
    /\ rpc' = "done"
    /\ UNCHANGED <<not_r, N, basis, vis, x, xp, v, num_nontrivial_U,
                   nontrivial_sites, sub_state, Upsi, psi_r>>

NextRot ==
    \/ rotate_psi_x
    \/ rotate_psi_xp
    \/ rotate_psi_store
    \/ rotate_psi_return

RotInit ==
    InitRot /\ IdleGrad /\ IdlePlot /\ IdleNLL /\ IdleLoad /\ IdleBases

SpecRot == RotInit /\ [][NextRot]_vars

\* -------------------------------------------------------- claims, SpecRot
NonZSites == {s \in 1..N : basis[s] # "Z"}

\* the non-'Z' sites in increasing order
RECURSIVE SortedSites(_)
SortedSites(S) ==
    IF S = {} THEN <<>>
    ELSE LET m == CHOOSE s \in S : \A t \in S : s <= t
         IN <<m>> \o SortedSites(S \ {m})

\* C8: the sum stored in psi_r[:, x] has exactly 2^k terms (k the number of
\* non-'Z' sites), one per assignment of those sites; the configuration of
\* each term agrees with vis[x] on every 'Z' site and its coefficient is
\* the product over the non-'Z' sites s of
\* unitary_dict[basis[s]][:, vis[x][s], v[s]]; with k = 0 it is psi(vis[x]).
C8_RotatedSum ==
    \A row \in 1..x :
        LET terms == psi_r[row]
            sites == SortedSites(NonZSites)
        IN /\ Len(terms) = Pow2(Cardinality(NonZSites))
           /\ \A t \in 1..Len(terms) :
                LET vt == terms[t].psi.v
                IN /\ terms[t].psi = [fn |-> "psi", v |-> vt]
                   /\ DOMAIN vt = 1..N
                   /\ \A s \in 1..N : vt[s] \in {0, 1}
                   /\ \A s \in (1..N) \ NonZSites : vt[s] = vis[row][s]
                   /\ terms[t].U =
                        [k \in 1..Len(sites) |->
                           [U |-> basis[sites[k]],
                            row |-> vis[row][sites[k]],
                            col |-> vt[sites[k]]]]
           /\ \A t1, t2 \in 1..Len(terms) :
                t1 # t2 => terms[t1].psi.v # terms[t2].psi.v
           /\ NonZSites = {} =>
                terms = << [U |-> <<>>, psi |-> psi(vis[row])] >>

C8_Witness ==
    /\ rpc = "done" /\ N = 2 /\ x = 4
    /\ basis = <<"Z", "Y">>
    /\ Len(psi_r[3]) = 2
    /\ vis[1] = <<1, 1>>


\* ======================================= ComplexGradsUtils.load_target_psi
PsiVals    == {0, 1}
BasisNames == {<<"Z", "Z">>, <<"X", "Z">>}

\* a slip: the block of basis b taken from row b instead of row b * D
block_from_b(data, bb, d, col) ==
    [k \in 1..d |-> data[bb + k][col]]

\* psi_data[b * D:(b + 1) * D, col]  (col 0 is col 1 of the model)
block(data, bb, d, col) ==
    [k \in 1..d |-> data[bb * d + k][col]]

\* psi_dict[key] = value
dict_set(dict, key, value) ==
    [k \in DOMAIN dict \cup {key} |-> IF k = key THEN value ELSE dict[k]]

InitLoad ==
    /\ \E nb \in 0..MaxBases : bases \in [1..nb -> BasisNames]
    /\ \E np \in 0..MaxPsi : psi_data \in [1..np -> PsiVals \X PsiVals]
    /\ psi_local = <<>> /\ D = 0 /\ b = 0 /\ psi_dict = <<>>
    /\ lpc = "entry" /\ lerr = "none"

\* D = int(len(psi_data) / float(len(bases))); psi_data = psi_data.clone()
load_target_psi_entry ==
    /\ lpc = "entry"
    /\ \/ /\ Len(bases) # 0
          /\ D' = Len(psi_data) \div Len(bases)
          /\ psi_local' = psi_data
          /\ lpc' = "loop"
          /\ UNCHANGED <<not_l, bases, psi_data, b, psi_dict, lerr>>
       \/ /\ Len(bases) = 0
          /\ lerr' = "ZeroDivisionError"
          /\ lpc' = "raised"
          /\ UNCHANGED <<not_l, bases, psi_data, psi_local, D, b, psi_dict>>

\* for b in range(len(bases)): ... psi_dict[bases[b]] = psi
load_target_psi_basis ==
    /\ lpc = "loop"
    /\ b < Len(bases)
    /\ LET psi_real == block(psi_local, b, D, 1)
           psi_imag == block(psi_local, b, D, 2)
       IN psi_dict' = dict_set(psi_dict, bases[b + 1], <<psi_real, psi_imag>>)
    /\ b' = b + 1
    /\ UNCHANGED <<not_l, bases, psi_data, psi_local, D, lpc, lerr>>

\* return psi_dict
load_target_psi_return ==
    /\ lpc = "loop"
    /\ b >= Len(bases)
    /\ lpc' = "done"
    /\ UNCHANGED <<not_l, bases, psi_data, psi_local, D, b, psi_dict, lerr>>

NextLoad ==
    \/ load_target_psi_entry
    \/ load_target_psi_basis
    \/ load_target_psi_return

LoadInit ==
    InitLoad /\ IdleGrad /\ IdlePlot /\ IdleNLL /\ IdleRot /\ IdleBases

SpecLoad == LoadInit /\ [][NextLoad]_vars

\* ------------------------------------------------------- claims, SpecLoad
FloorDiv(n, d) == CHOOSE q \in 0..n : q * d <= n /\ n < (q + 1) * d

BlockEquals(bb, d) ==
    \A k \in 0..(d - 1) :
        /\ psi_dict[bases[bb + 1]][1][k + 1] = psi_data[bb * d + k + 1][1]
        /\ psi_dict[bases[bb + 1]][2][k + 1] = psi_data[bb * d + k + 1][2]

LastOccurrence(bb) ==
    \A later \in (bb + 1)..(Len(bases) - 1) : bases[later + 1] # bases[bb + 1]

\* C9 (as stated): on return, for every basis index b the value stored
\* under bases[b] is the b-th consecutive block of D rows of psi_data.
C9_EveryBlockStored ==
    lpc = "done" =>
        \A bb \in 0..(Len(bases) - 1) :
            BlockEquals(bb, FloorDiv(Len(psi_data), Len(bases)))

\* C9 (amended): on return, with D = floor(len(psi_data) / len(bases)), for
\* every basis index b whose string does not occur again at a later index
\* (every b when the strings are pairwise distinct) the value stored under
\* bases[b] is the b-th consecutive block of D rows; blocks do not overlap
\* and lie within psi_data, each stored value is 2 x D, there is one key
\* per distinct string, and the caller's psi_data and bases are never
\* written.
C9_LastBlockStored ==
    /\ [](lpc = "done" =>
            LET d == FloorDiv(Len(psi_data), Len(bases))
            IN /\ D = d
               /\ \A bb \in 0..(Len(bases) - 1) :
                    /\ (bb + 1) * d <= Len(psi_data)
                    /\ LastOccurrence(bb) => BlockEquals(bb, d)
                    /\ DOMAIN psi_dict[bases[bb + 1]] = 1..2
                    /\ Len(psi_dict[bases[bb + 1]][1]) = d
                    /\ Len(psi_dict[bases[bb + 1]][2]) = d
               /\ DOMAIN psi_dict = {bases[k] : k \in 1..Len(bases)}
               /\ (\A b1, b2 \in 1..Len(bases) :
                      b1 # b2 => bases[b1] # bases[b2])
                    => Cardinality(DOMAIN psi_dict) = Len(bases))
    /\ [][psi_data' = psi_data /\ bases' = bases]_vars

C9_Witness ==
    /\ lpc = "done" /\ Len(bases) = 2 /\ bases[1] # bases[2]
    /\ Len(psi_data) = 4 /\ D = 2
    /\ psi_dict[bases[1]] # psi_dict[bases[2]]

\* ================================================== transform_bases (two)
StrChars == {"X", "Z", " "}

Strings == UNION {[1..n -> StrChars] : n \in 0..MaxStr}

\* a slip: tmp = bases_data[i][j], which keeps only the last character
RECURSIVE Complex_strip_assign(_, _, _)
Complex_strip_assign(str, j, tmp) ==
    IF j >= Len(str) THEN tmp
    ELSE Complex_strip_assign(str, j + 1,
            IF str[j + 1] # " " THEN <<str[j + 1]>> ELSE tmp)

\* ComplexGradsUtils: for j in range(len(bases_data[i])):
\*                        if bases_data[i][j] != " ": tmp += bases_data[i][j]
RECURSIVE Complex_strip(_, _, _)
Complex_strip(str, j, tmp) ==
    IF j >= Len(str) THEN tmp
    ELSE Complex_strip(str, j + 1,
            IF str[j + 1] # " " THEN tmp \o <<str[j + 1]>> ELSE tmp)

\* ComplexGradsUtils.transform_bases: tmp = "" ... bases.append(tmp)
RECURSIVE Complex_transform_bases(_, _, _)
Complex_transform_bases(data, k, out) ==
    IF k >= Len(data) THEN out
    ELSE Complex_transform_bases(data, k + 1,
            Append(out, Complex_strip(data[k + 1], 0, <<>>)))

\* DensityGradsUtils: the same inner loop
RECURSIVE Density_strip(_, _, _)
Density_strip(str, j, tmp) ==
    IF j >= Len(str) THEN tmp
    ELSE Density_strip(str, j + 1,
            IF str[j + 1] # " " THEN tmp \o <<str[j + 1]>> ELSE tmp)

\* DensityGradsUtils.transform_bases
RECURSIVE Density_transform_bases(_, _, _)
Density_transform_bases(data, k, out) ==
    IF k >= Len(data) THEN out
    ELSE Density_transform_bases(data, k + 1,
            Append(out, Density_strip(data[k + 1], 0, <<>>)))

InitBases ==
    /\ \E n \in 0..MaxList : bases_data \in [1..n -> Strings]
    /\ out_complex = <<>> /\ out_density = <<>>
    /\ again_complex = <<>> /\ again_density = <<>>
    /\ tpc = "complex"

call_Complex_transform_bases ==
    /\ tpc = "complex"
    /\ out_complex' = Complex_transform_bases(bases_data, 0, <<>>)
    /\ tpc' = "density"
    /\ UNCHANGED <<not_t, bases_data, out_density, again_complex, again_density>>

call_Density_transform_bases ==
    /\ tpc = "density"
    /\ out_density' = Density_transform_bases(bases_data, 0, <<>>)
    /\ tpc' = "again_complex"
    /\ UNCHANGED <<not_t, bases_data, out_complex, again_complex, again_density>>

call_Complex_again ==
    /\ tpc = "again_complex"
    /\ again_complex' = Complex_transform_bases(out_complex, 0, <<>>)
    /\ tpc' = "again_density"
    /\ UNCHANGED <<not_t, bases_data, out_complex, out_density, again_density>>

call_Density_again ==
    /\ tpc = "again_density"
    /\ again_density' = Density_transform_bases(out_density, 0, <<>>)
    /\ tpc' = "done"
    /\ UNCHANGED <<not_t, bases_data, out_complex, out_density, again_complex>>

NextBases ==
    \/ call_Complex_transform_bases
    \/ call_Density_transform_bases
    \/ call_Complex_again
    \/ call_Density_again

BasesInit ==
    InitBases /\ IdleGrad /\ IdlePlot /\ IdleNLL /\ IdleRot /\ IdleLoad

SpecBases == BasesInit /\ [][NextBases]_vars

\* ------------------------------------------------------ claims, SpecBases
WithoutSpaces(str) == SelectSeq(str, LAMBDA ch : ch # " ")

Stripped(out, data) ==
    /\ Len(out) = Len(data)
    /\ \A k \in 1..Len(data) : out[k] = WithoutSpaces(data[k])

\* C10: the result has the length of the input, element i is input element
\* i without its ' ' characters and with the others in their order, the
\* input list is never written, transforming a result again returns it,
\* and the two classes return equal results.
C10_StripsSpacesOnly ==
    /\ [](/\ tpc \notin {"complex"} => Stripped(out_complex, bases_data)
          /\ tpc \notin {"complex", "density"} =>
                /\ Stripped(out_density, bases_data)
                /\ out_density = out_complex
          /\ tpc \in {"again_density", "done"} => again_complex = out_complex
          /\ tpc = "done" => again_density = out_density)
    /\ [][bases_data' = bases_data]_vars

C10_Witness ==
    /\ tpc = "done" /\ Len(bases_data) = 2
    /\ bases_data[1] = <<"X", " ">> /\ bases_data[2] = <<" ", "Z">>
    /\ out_complex = << <<"X">>, <<"Z">> >>
    /\ again_density = out_density

====
